---- MODULE Spec2Model ----
(***************************************************************************)
(* The peer request dispatcher of nakama-plus: LocalPeer.onRequest         *)
(* (src/server/peer_request.go).  One inbound frame is one dispatch.  A    *)
(* dispatch switches on the request kind, calls at most one registry or    *)
(* local subsystem, and hands at most one ResponseWriter to the closure w, *)
(* which resolves the origin node in the membership directory, marshals a  *)
(* response frame and passes it to memberlist.SendReliable.                *)
(*                                                                         *)
(* Strings that the code inspects (match identifiers, the local node's     *)
(* name, the inbox) are sequences of one-character strings.  The frame     *)
(* fields Id (a random UUID) and Timestamp (the wall clock) are written    *)
(* but never read by the dispatcher and are left out of the frame record.  *)
(***************************************************************************)
EXTENDS Integers, Sequences, FiniteSets, TLC

VARIABLES
    name,      \* s.endpoint.Name(): the local node's name
    members,   \* s.members: the node names the membership directory holds
    pc,        \* per dispatch: "idle", "inCall", "sending", "done"
    frame,     \* per dispatch: the inbound frame (NoFrame while idle)
    arrival,   \* per dispatch: whether the directory held the frame's node on arrival
    calls,     \* per dispatch: the registry / local subsystem calls made
    outcome,   \* per dispatch: what the registry call returned
    wcalls,    \* per dispatch: the ResponseWriters handed to w
    lookup,    \* per dispatch: the result of s.members.Load in w
    marshal,   \* per dispatch: the result of proto.Marshal in w
    sends,     \* per dispatch: the SendReliable calls made (endpoint, frame)
    wret,      \* per dispatch: the value w returned
    result     \* per dispatch: what onRequest handed back to its caller

vars == <<name, members, pc, frame, arrival, calls, outcome, wcalls, lookup, marshal, sends, wret, result>>

----------------------------------------------------------------------------
(* Bounds and input domains *)

\* longest match identifier of the single-dispatch specification
MaxIdLen == 5

\* longest identifier of the match kinds that do not inspect it
MaxPlainIdLen == 3

\* longest repeated stream or meta field of a PartyJoinRequest
MaxRepeated == 2

\* longest list a registry call returns
MaxPresences == 2

Chars == {"a", "."}

RECURSIVE ListsOfLen(_, _)
ListsOfLen(S, n) ==
    IF n = 0 THEN {<<>>}
    ELSE {Append(l, x) : l \in ListsOfLen(S, n - 1), x \in S}

\* the lists over S of length at most n
Lists(S, n) == UNION {ListsOfLen(S, k) : k \in 0..n}

RECURSIVE StringsOfLen(_)
StringsOfLen(n) ==
    IF n = 0 THEN {<<>>}
    ELSE {Append(s, c) : s \in StringsOfLen(n - 1), c \in Chars}

Strings(n) == UNION {StringsOfLen(k) : k \in 0..n}

\* names the local node may be configured with
NodeNames == {<<"a">>, <<"a", ".", "a">>}

\* names of remote nodes (the frame's Node field)
Nodes == {"n1", "n2"}

NoInbox == <<>>
Inboxes == {NoInbox, <<"i">>}

NoValue == [none |-> TRUE]
Void == "void"
NotReturned == "notreturned"

PartyKinds ==
    {"PartyJoinRequest", "PartyPromote", "PartyAccept", "PartyRemove", "PartyClose",
     "PartyJoinRequestList", "PartyMatchmakerAdd", "PartyMatchmakerRemove",
     "PartyDataSend"}

MatchKinds == {"MatchId", "MatchJoinAttempt", "MatchSendData", "MatchSignal", "MatchState"}

LocalKinds == {"Out", "SingleSocket", "Disconnect"}

\* "Unset" is a request whose oneof is not set or not known to this build
Kinds == {"Ping", "Unset"} \cup LocalKinds \cup PartyKinds \cup MatchKinds

\* the identifier a request carries is inspected for the match kinds only
NoFrame ==
    [inbox |-> <<>>, node |-> "none", kind |-> "none", id |-> <<>>,
     stream |-> <<>>, meta |-> <<>>]

\* the entries of the repeated stream and meta fields of a request's Presence
StreamEntries == {"s1", "s2"}
MetaEntries == {"m1", "m2"}

\* the kinds whose case tests the identifier's namespace
NamespacedKinds == {"MatchId", "MatchSignal"}

\* the repeated stream and meta fields are read by the PartyJoinRequest case only
FramesOver(inboxes, ids, plainIds, n) ==
    [inbox : inboxes, node : Nodes, kind : Kinds \ (MatchKinds \cup {"PartyJoinRequest"}),
     id : {<<>>}, stream : {<<>>}, meta : {<<>>}]
        \cup [inbox : inboxes, node : Nodes, kind : {"PartyJoinRequest"}, id : {<<>>},
               stream : Lists(StreamEntries, n), meta : Lists(MetaEntries, n)]
        \cup [inbox : inboxes, node : Nodes, kind : NamespacedKinds, id : ids,
               stream : {<<>>}, meta : {<<>>}]
        \cup [inbox : inboxes, node : Nodes, kind : MatchKinds \ NamespacedKinds, id : plainIds,
               stream : {<<>>}, meta : {<<>>}]

Frames == FramesOver(Inboxes, Strings(MaxIdLen), Strings(MaxPlainIdLen), MaxRepeated)

\* the single-dispatch specification follows one frame through onRequest
Dispatches == {"d1"}

\* the concurrent specification runs two invocations of onRequest side by
\* side; each requester chooses its own inbox, and the identifiers are one
\* the local node owns and one it does not
ConcDispatches == {"d1", "d2"}
ConcNames == {<<"a">>}
ConcIds == {<<"a", ".", "a">>, <<"a", ".", ".">>}
\* one party kind with a payload and one with a bare acknowledgement stand for the nine
ConcKinds ==
    (Kinds \ PartyKinds) \cup {"PartyJoinRequest", "PartyAccept"}

ConcFrames(d) ==
    {f \in FramesOver({NoInbox, <<d>>}, ConcIds, {<<"a">>}, 0) : f.kind \in ConcKinds}

----------------------------------------------------------------------------
(* Pure helpers *)

\* the position of the first "." of s, 0 when there is none
RECURSIVE IndexFrom(_, _)
IndexFrom(s, i) ==
    IF i > Len(s) THEN 0
    ELSE IF s[i] = "." THEN i
    ELSE IndexFrom(s, i + 1)

\* mutant: the identifier is split at its last "."
SplitN2_LastDot(s) ==
    LET dots == {i \in 1..Len(s) : s[i] = "."}
    IN  IF dots = {} THEN <<s>>
        ELSE LET i == CHOOSE k \in dots : \A j \in dots : j <= k
             IN  <<SubSeq(s, 1, i - 1), SubSeq(s, i + 1, Len(s))>>

\* strings.SplitN(s, ".", 2)
SplitN2(s) ==
    LET i == IndexFrom(s, 1)
    IN  IF i = 0 THEN <<s>>
        ELSE <<SubSeq(s, 1, i - 1), SubSeq(s, i + 1, Len(s))>>

\* mutant: the test forgets to compare the suffix with the node's name
NamespaceMismatch_LenOnly(id, nm) == Len(SplitN2(id)) # 2

\* mutant: the test compares the part before the "." with the node's name
NamespaceMismatch_Prefix(id, nm) ==
    LET idComponents == SplitN2(id)
    IN  Len(idComponents) # 2 \/ idComponents[1] # nm

\* the namespace test of the MatchId and MatchSignal cases: TRUE when the
\* identifier is rejected (len(idComponents) != 2 || idComponents[1] != name)
NamespaceMismatch(id, nm) ==
    LET idComponents == SplitN2(id)
    IN  Len(idComponents) # 2 \/ idComponents[2] # nm

\* uuid.FromStringOrNil: the text of a UUID holds no "."; any other text
\* parses to the nil UUID
NilUUID == <<>>
NoArg == <<>>
FromStringOrNil(s) ==
    IF s # <<>> /\ \A i \in 1..Len(s) : s[i] # "." THEN s ELSE NilUUID

\* status.Error(code, message)
StatusError(code, message) == [code |-> code, message |-> message]

\* the nil error
Nil == StatusError("OK", "")

NotFoundError == StatusError("NotFound", "Not Found")
NoNodeError == StatusError("Aborted", "the remote node does not exist")
MarshalError == StatusError("Aborted", "marshal error")
TransportError == StatusError("Aborted", "transport error")

\* the errors a registry call may report
RegistryErrors == {StatusError("Unknown", "domain error"), StatusError("NotFound", "Not Found")}

\* uuid.UUID.String(): the text of a UUID, one hex digit per value (a UUID is
\* modelled as a sequence of values 0..15)
Hex == <<"0", "1", "2", "3", "4", "5", "6", "7", "8", "9", "a", "b", "c", "d", "e", "f">>
UUIDString(u) == [i \in 1..Len(u) |-> Hex[u[i] + 1]]

\* uint32(x) of an int32 enum value: the value itself when it is not negative
\* (the enum's values are not negative; the wrapped value of a negative one
\* lies beyond the integers the checker represents, so it is left undefined)
Uint32(x) == CASE x >= 0 -> x

\* the presences Match Registry JoinAttempt may return ([]*MatchPresence)
JoinPresences ==
    {[userId |-> "u1", sessionId |-> "s1", username |-> "a1", nodeId |-> "x1", reason |-> 1],
     [userId |-> "u2", sessionId |-> "s2", username |-> "a2", nodeId |-> "x2", reason |-> 2]}

\* the presences Match Registry GetState may return ([]*rtapi.UserPresence)
StatePresences ==
    {[userId |-> "u1", sessionId |-> "s1", username |-> "a1", persistence |-> TRUE, status |-> "t1"],
     [userId |-> "u2", sessionId |-> "s2", username |-> "a2", persistence |-> FALSE, status |-> "t2"]}

\* the presence identifiers Party Registry PartyMatchmakerAdd may return
MatchmakerIds ==
    {[node |-> "x1", sessionID |-> <<1, 10>>], [node |-> "x2", sessionID |-> <<2, 11>>]}

\* the values a registry call of a kind may return, with lists of at most n entries
Values(kind, n) ==
    CASE kind = "MatchJoinAttempt" ->
            [found : BOOLEAN, allow : BOOLEAN, isNew : BOOLEAN, reason : {"r"},
             label : {"l"}, ps : Lists(JoinPresences, n)]
      [] kind = "MatchState" ->
            [userPresence : Lists(StatePresences, n), tick : {"k"}, state : {"b"}]
      [] kind = "PartyMatchmakerAdd" ->
            [ticket : {"T1"}, ids : Lists(MatchmakerIds, n)]
      [] OTHER -> {[plain |-> "v"]}

\* the band of one list length only, for the narrow inputs
ValuesOfLen(kind, n) ==
    CASE kind = "MatchJoinAttempt" ->
            [found : {TRUE}, allow : {TRUE}, isNew : {FALSE}, reason : {"r"},
             label : {"l"}, ps : ListsOfLen({CHOOSE p \in JoinPresences : TRUE}, n)]
      [] kind = "MatchState" ->
            [userPresence : ListsOfLen({CHOOSE p \in StatePresences : TRUE}, n),
             tick : {"k"}, state : {"b"}]
      [] kind = "PartyMatchmakerAdd" ->
            [ticket : {"T1"}, ids : ListsOfLen({CHOOSE p \in MatchmakerIds : TRUE}, n)]
      [] OTHER -> {[plain |-> "v"]}

\* newEnvelopeError(err): the renderable envelope that carries the error
NewEnvelopeError(err) == [code |-> err.code, message |-> err.message]
NoEnvelope == [code |-> "", message |-> ""]

\* mutant: the pong carries another text
Pong_Lower == [variant |-> "Pong", value |-> "pong", envelope |-> NoEnvelope]

\* the ResponseWriter payloads
Pong == [variant |-> "Pong", value |-> "PONG", envelope |-> NoEnvelope]
Envelope(err) == [variant |-> "Envelope", value |-> NoValue, envelope |-> NewEnvelopeError(err)]
Bare == [variant |-> "None", value |-> NoValue, envelope |-> NoEnvelope]
Payload(variant, value) == [variant |-> variant, value |-> value, envelope |-> NoEnvelope]

\* the kinds whose success response is the bare ResponseWriter
BareKinds ==
    {"PartyPromote", "PartyAccept", "PartyRemove", "PartyClose",
     "PartyMatchmakerRemove", "PartyDataSend"}

\* the kinds that call a registry and then answer through w
RepliedKinds == PartyKinds \cup {"MatchId", "MatchJoinAttempt", "MatchSignal", "MatchState"}

\* the ResponseWriter variant of a kind's success response
SuccessVariant(kind) ==
    CASE kind = "PartyJoinRequest" -> "PartyJoinRequest"
      [] kind = "PartyJoinRequestList" -> "PartyJoinRequestList"
      [] kind = "PartyMatchmakerAdd" -> "PartyMatchmakerAdd"
      [] kind = "MatchId" -> "Match"
      [] kind = "MatchJoinAttempt" -> "MathJoinAttempt"
      [] kind = "MatchSignal" -> "MatchSignal"
      [] kind = "MatchState" -> "MatchState"
      [] OTHER -> "None"

\* no registry call has returned yet
NoOutcome == [err |-> Nil, val |-> NoValue]

\* pb.MatchPresence built from a returned presence
MatchPresenceOf(p) ==
    [UserId |-> p.userId, SessionId |-> p.sessionId, Username |-> p.username,
     Node |-> p.nodeId, Reason |-> Uint32(p.reason)]

\* mutant: the presences are filled from the last returned one to the first
JoinAttemptReply_Reversed(v) ==
    [Found |-> v.found, Allow |-> v.allow, IsNew |-> v.isNew, Reason |-> v.reason,
     Label |-> v.label,
     Presences |-> [k \in 1..Len(v.ps) |-> MatchPresenceOf(v.ps[Len(v.ps) + 1 - k])]]

\* pb.Match_JoinAttemptReply
JoinAttemptReply(v) ==
    [Found |-> v.found, Allow |-> v.allow, IsNew |-> v.isNew, Reason |-> v.reason,
     Label |-> v.label,
     Presences |-> [k \in 1..Len(v.ps) |-> MatchPresenceOf(v.ps[k])]]

\* mutant: the reply keeps the node of the first identifier for every entry
MatchmakerAddReply_FirstNode(v) ==
    [Ticket |-> v.ticket,
     PresenceID |-> [k \in 1..Len(v.ids) |->
        [Node |-> v.ids[1].node, SessionID |-> UUIDString(v.ids[k].sessionID)]]]

\* pb.Party_PartyMatchmakerAddReply
MatchmakerAddReply(v) ==
    [Ticket |-> v.ticket,
     PresenceID |-> [k \in 1..Len(v.ids) |->
        [Node |-> v.ids[k].node, SessionID |-> UUIDString(v.ids[k].sessionID)]]]

\* rtapi.UserPresence built from a returned presence
UserPresenceOf(p) ==
    [UserId |-> p.userId, SessionId |-> p.sessionId, Username |-> p.username,
     Persistence |-> p.persistence, Status |-> p.status]

\* pb.Match_State
MatchStateReply(v) ==
    [UserPresence |-> [k \in 1..Len(v.userPresence) |-> UserPresenceOf(v.userPresence[k])],
     Tick |-> v.tick, State |-> v.state]

\* the content of a kind's success payload
SuccessValue(kind, v) ==
    CASE kind = "MatchJoinAttempt" -> JoinAttemptReply(v)
      [] kind = "PartyMatchmakerAdd" -> MatchmakerAddReply(v)
      [] kind = "MatchState" -> MatchStateReply(v)
      [] OTHER -> v

\* what the registry calls may return: JoinAttempt has no error result
OutcomesOver(errors, n, narrow) ==
    [kind \in RepliedKinds |->
        [vals |-> IF narrow THEN ValuesOfLen(kind, n) ELSE Values(kind, n),
         errs |-> IF kind = "MatchJoinAttempt" THEN {} ELSE errors]]

Outcomes == OutcomesOver(RegistryErrors, MaxPresences, FALSE)

ConcOutcomes == OutcomesOver({StatusError("Unknown", "domain error")}, 1, TRUE)

\* mutant: the cases with a bare acknowledgement drop the registry's error
Reply_BareDropsError(kind, out) ==
    IF kind \in BareKinds THEN Bare
    ELSE IF kind # "MatchJoinAttempt" /\ out.err # Nil THEN Envelope(out.err)
    ELSE Payload(SuccessVariant(kind), SuccessValue(kind, out.val))

\* the ResponseWriter a case hands to w once its registry call has returned
Reply(kind, out) ==
    IF kind # "MatchJoinAttempt" /\ out.err # Nil THEN Envelope(out.err)
    ELSE IF kind \in BareKinds THEN Bare
    ELSE Payload(SuccessVariant(kind), SuccessValue(kind, out.val))

\* the registry method a kind calls
Method(kind) ==
    CASE kind = "MatchId" -> "GetMatch"
      [] kind = "MatchJoinAttempt" -> "JoinAttempt"
      [] kind = "MatchSendData" -> "SendData"
      [] kind = "MatchSignal" -> "Signal"
      [] kind = "MatchState" -> "GetState"
      [] kind = "Out" -> "handler"
      [] kind = "SingleSocket" -> "singleSocket"
      [] kind = "Disconnect" -> "disconnect"
      [] OTHER -> kind

Target(kind) ==
    IF kind \in PartyKinds THEN "partyRegistry"
    ELSE IF kind \in MatchKinds THEN "matchRegistry"
    ELSE "local"

\* endpoint.MemberlistNode() of the directory entry of node n
MemberlistNode(n) == [memberlistNode |-> n]

\* mutant: the response frame loses the requester's inbox
ResponseFrame_NoInbox(f, response) ==
    [inbox |-> NoInbox, node |-> name, payload |-> [type |-> "ResponseWriter", rw |-> response]]

\* the response frame w builds
ResponseFrame(f, response) ==
    [inbox |-> f.inbox, node |-> name, payload |-> [type |-> "ResponseWriter", rw |-> response]]

----------------------------------------------------------------------------
(* State *)

NoLookup == [key |-> "none", ok |-> FALSE]

TypeOK ==
    /\ name \in NodeNames
    /\ members \subseteq Nodes
    /\ pc \in [DOMAIN pc -> {"idle", "inCall", "sending", "done"}]
    /\ \A d \in DOMAIN pc :
        /\ Len(calls[d]) <= 1
        /\ wret[d] \in {Nil, NoNodeError, MarshalError, TransportError}
        /\ result[d] \in {NotReturned, Void}

InitWith(names, D) ==
    /\ name \in names
    /\ members \in SUBSET Nodes
    /\ pc = [d \in D |-> "idle"]
    /\ frame = [d \in D |-> NoFrame]
    /\ arrival = [d \in D |-> FALSE]
    /\ calls = [d \in D |-> <<>>]
    /\ outcome = [d \in D |-> NoOutcome]
    /\ wcalls = [d \in D |-> <<>>]
    /\ lookup = [d \in D |-> NoLookup]
    /\ marshal = [d \in D |-> "none"]
    /\ sends = [d \in D |-> <<>>]
    /\ wret = [d \in D |-> Nil]
    /\ result = [d \in D |-> NotReturned]

Init == InitWith(NodeNames, Dispatches)

InitConc == InitWith(ConcNames, ConcDispatches)

----------------------------------------------------------------------------
(* The closure w *)

\* mutant: w answers also when no response is wanted
NoResponseWanted_Never(f) == FALSE

\* len(frame.Inbox) < 1: w returns nil at once
NoResponseWanted(f) == Len(f.inbox) < 1

\* mutant: w takes the directory entry without testing ok
Load_Always(n) == TRUE

\* s.members.Load(frame.Node): the ok result
Load(n) == n \in members

\* mutant: w answers according to the directory as it was when the frame arrived
W_AtArrival(d, f, response, marshalOk) ==
    /\ wcalls' = [wcalls EXCEPT ![d] = Append(@, response)]
    /\ IF NoResponseWanted(f)
       THEN /\ wret' = [wret EXCEPT ![d] = Nil]
            /\ pc' = [pc EXCEPT ![d] = "done"]
            /\ result' = [result EXCEPT ![d] = Void]
            /\ UNCHANGED <<lookup, marshal, sends>>
       ELSE IF ~(IF pc[d] = "idle" THEN Load(f.node) ELSE arrival[d])
       THEN /\ lookup' = [lookup EXCEPT ![d] = [key |-> f.node, ok |-> FALSE]]
            /\ wret' = [wret EXCEPT ![d] = NoNodeError]
            /\ pc' = [pc EXCEPT ![d] = "done"]
            /\ result' = [result EXCEPT ![d] = Void]
            /\ UNCHANGED <<marshal, sends>>
       ELSE /\ lookup' = [lookup EXCEPT ![d] = [key |-> f.node, ok |-> TRUE]]
            /\ marshal' = [marshal EXCEPT ![d] = IF marshalOk THEN "ok" ELSE "failed"]
            /\ sends' = [sends EXCEPT ![d] =
                    IF marshalOk
                    THEN Append(@, [to |-> MemberlistNode(f.node), frame |-> ResponseFrame(f, response)])
                    ELSE @]
            /\ pc' = [pc EXCEPT ![d] = IF marshalOk THEN "sending" ELSE "done"]
            /\ wret' = [wret EXCEPT ![d] = IF marshalOk THEN @ ELSE MarshalError]
            /\ result' = [result EXCEPT ![d] = IF marshalOk THEN @ ELSE Void]

\* w(response) for the frame f of dispatch d, up to the point where it either
\* returns or blocks in SendReliable; marshalOk is proto.Marshal's outcome.
\* Every call site of w discards its result and returns from onRequest.
W(d, f, response, marshalOk) ==
    /\ wcalls' = [wcalls EXCEPT ![d] = Append(@, response)]
    /\ IF NoResponseWanted(f)
       THEN /\ wret' = [wret EXCEPT ![d] = Nil]
            /\ pc' = [pc EXCEPT ![d] = "done"]
            /\ result' = [result EXCEPT ![d] = Void]
            /\ UNCHANGED <<lookup, marshal, sends>>
       ELSE IF ~Load(f.node)
       THEN /\ lookup' = [lookup EXCEPT ![d] = [key |-> f.node, ok |-> FALSE]]
            /\ wret' = [wret EXCEPT ![d] = NoNodeError]
            /\ pc' = [pc EXCEPT ![d] = "done"]
            /\ result' = [result EXCEPT ![d] = Void]
            /\ UNCHANGED <<marshal, sends>>
       ELSE IF ~marshalOk
       THEN /\ lookup' = [lookup EXCEPT ![d] = [key |-> f.node, ok |-> TRUE]]
            /\ marshal' = [marshal EXCEPT ![d] = "failed"]
            /\ wret' = [wret EXCEPT ![d] = MarshalError]
            /\ pc' = [pc EXCEPT ![d] = "done"]
            /\ result' = [result EXCEPT ![d] = Void]
            /\ UNCHANGED sends
       ELSE /\ lookup' = [lookup EXCEPT ![d] = [key |-> f.node, ok |-> TRUE]]
            /\ marshal' = [marshal EXCEPT ![d] = "ok"]
            /\ sends' = [sends EXCEPT ![d] =
                    Append(@, [to |-> MemberlistNode(f.node), frame |-> ResponseFrame(f, response)])]
            /\ pc' = [pc EXCEPT ![d] = "sending"]
            /\ UNCHANGED <<wret, result>>

\* mutant: a failed send is tried again
SendReturn_Retry(d, sendOk) ==
    /\ pc[d] = "sending"
    /\ IF sendOk
       THEN /\ pc' = [pc EXCEPT ![d] = "done"]
            /\ result' = [result EXCEPT ![d] = Void]
            /\ UNCHANGED sends
       ELSE /\ sends' = [sends EXCEPT ![d] = Append(@, @[Len(@)])]
            /\ UNCHANGED <<pc, result>>
    /\ UNCHANGED <<name, members, frame, arrival, calls, outcome, wcalls, lookup, marshal, wret>>

\* mutant: a failed send calls the registry again to undo the call's effect
SendReturn_Undo(d, sendOk) ==
    /\ pc[d] = "sending"
    /\ pc' = [pc EXCEPT ![d] = "done"]
    /\ wret' = [wret EXCEPT ![d] = IF sendOk THEN Nil ELSE TransportError]
    /\ result' = [result EXCEPT ![d] = Void]
    /\ calls' = [calls EXCEPT ![d] =
            IF sendOk \/ @ = <<>> THEN @ ELSE Append(@, [@[1] EXCEPT !.method = "Undo"])]
    /\ UNCHANGED <<name, members, frame, arrival, outcome, wcalls, lookup, marshal, sends>>

\* mutant: the dispatcher holds a lock from the registry call to the end of
\* the send, so SendReliable's return waits for every other dispatch in flight
SendReturn_Locked(d, sendOk) ==
    /\ pc[d] = "sending"
    /\ \A e \in DOMAIN pc \ {d} : pc[e] \in {"idle", "done"}
    /\ wret' = [wret EXCEPT ![d] = IF sendOk THEN Nil ELSE TransportError]
    /\ pc' = [pc EXCEPT ![d] = "done"]
    /\ result' = [result EXCEPT ![d] = Void]
    /\ UNCHANGED <<name, members, frame, arrival, calls, outcome, wcalls, lookup, marshal, sends>>

\* s.memberlist.SendReliable returns: w returns its verdict, onRequest returns
SendReturn(d, sendOk) ==
    /\ pc[d] = "sending"
    /\ wret' = [wret EXCEPT ![d] = IF sendOk THEN Nil ELSE TransportError]
    /\ pc' = [pc EXCEPT ![d] = "done"]
    /\ result' = [result EXCEPT ![d] = Void]
    /\ UNCHANGED <<name, members, frame, arrival, calls, outcome, wcalls, lookup, marshal, sends>>

----------------------------------------------------------------------------
(* The cases of the switch *)

\* pb2PresenceStream, pb2PresenceMeta: the server's form of a wire entry
Pb2PresenceStream(e) == <<"PresenceStream", e>>
Pb2PresenceMeta(e) == <<"PresenceMeta", e>>

\* a field of a Presence that was not assigned
Unset == <<>>

\* mutant: the Presence takes the last entry of each repeated field
PresenceOf_Last(f) ==
    IF f.kind # "PartyJoinRequest" THEN [Stream |-> Unset, Meta |-> Unset]
    ELSE [Stream |-> IF Len(f.stream) > 0 THEN Pb2PresenceStream(f.stream[Len(f.stream)]) ELSE Unset,
          Meta |-> IF Len(f.meta) > 0 THEN Pb2PresenceMeta(f.meta[Len(f.meta)]) ELSE Unset]

\* the Stream and Meta of the Presence the PartyJoinRequest case builds (no
\* other case builds one from the repeated fields)
PresenceOf(f) ==
    IF f.kind # "PartyJoinRequest" THEN [Stream |-> Unset, Meta |-> Unset]
    ELSE [Stream |-> IF Len(f.stream) > 0 THEN Pb2PresenceStream(f.stream[1]) ELSE Unset,
          Meta |-> IF Len(f.meta) > 0 THEN Pb2PresenceMeta(f.meta[1]) ELSE Unset]

\* a case that calls a registry or a local subsystem: the call is in progress
\* with the identifier and the node name it passes (NoArg where it passes none)
StartCall(d, f, id, node) ==
    /\ frame' = [frame EXCEPT ![d] = f]
    /\ arrival' = [arrival EXCEPT ![d] = f.node \in members]
    /\ calls' = [calls EXCEPT ![d] =
            Append(@, [target |-> Target(f.kind), method |-> Method(f.kind),
                       id |-> id, node |-> node, presence |-> PresenceOf(f)])]
    /\ pc' = [pc EXCEPT ![d] = "inCall"]
    /\ UNCHANGED <<name, members, outcome, wcalls, lookup, marshal, sends, wret, result>>

\* a case that answers without a call
Answer(d, f, response, marshalOk) ==
    /\ frame' = [frame EXCEPT ![d] = f]
    /\ arrival' = [arrival EXCEPT ![d] = f.node \in members]
    /\ W(d, f, response, marshalOk)
    /\ UNCHANGED <<name, members, calls, outcome>>

\* dispatch d has not yet received its frame
Idle(d) == pc[d] = "idle"

\* Each case takes the frames F that may arrive and is enabled for those of
\* its kind.
Ping(d, F) ==
    /\ Idle(d)
    /\ \E f \in F, marshalOk \in BOOLEAN :
        f.kind = "Ping" /\ Answer(d, f, Pong, marshalOk)

Out(d, F) ==
    /\ Idle(d)
    /\ \E f \in F : f.kind = "Out" /\ StartCall(d, f, NoArg, NoArg)

SingleSocket(d, F) ==
    /\ Idle(d)
    /\ \E f \in F : f.kind = "SingleSocket" /\ StartCall(d, f, NoArg, NoArg)

Disconnect(d, F) ==
    /\ Idle(d)
    /\ \E f \in F : f.kind = "Disconnect" /\ StartCall(d, f, NoArg, NoArg)

\* the nine party cases: the Party Registry method of the kind is called
PartyCall(d, F) ==
    /\ Idle(d)
    /\ \E f \in F : f.kind \in PartyKinds /\ StartCall(d, f, FromStringOrNil(f.id), name)

MatchId(d, F) ==
    /\ Idle(d)
    /\ \E f \in F, marshalOk \in BOOLEAN :
        /\ f.kind = "MatchId"
        /\ IF NamespaceMismatch(f.id, name)
           THEN Answer(d, f, Envelope(NotFoundError), marshalOk)
           ELSE StartCall(d, f, f.id, NoArg)

MatchJoinAttempt(d, F) ==
    /\ Idle(d)
    /\ \E f \in F : f.kind = "MatchJoinAttempt" /\ StartCall(d, f, FromStringOrNil(f.id), name)

MatchSendData(d, F) ==
    /\ Idle(d)
    /\ \E f \in F : f.kind = "MatchSendData" /\ StartCall(d, f, FromStringOrNil(f.id), name)

MatchSignal(d, F) ==
    /\ Idle(d)
    /\ \E f \in F, marshalOk \in BOOLEAN :
        /\ f.kind = "MatchSignal"
        /\ IF NamespaceMismatch(f.id, name)
           THEN Answer(d, f, Envelope(NotFoundError), marshalOk)
           ELSE StartCall(d, f, f.id, NoArg)

MatchState(d, F) ==
    /\ Idle(d)
    /\ \E f \in F : f.kind = "MatchState" /\ StartCall(d, f, FromStringOrNil(f.id), name)

\* mutant: an unknown request variant is acknowledged through w
Default_Ack(d, F) ==
    /\ Idle(d)
    /\ \E f \in F : f.kind = "Unset" /\ Answer(d, f, Bare, TRUE)

\* default: an unset or unknown request variant
Default(d, F) ==
    /\ Idle(d)
    /\ \E f \in F :
        /\ f.kind = "Unset"
        /\ frame' = [frame EXCEPT ![d] = f]
        /\ arrival' = [arrival EXCEPT ![d] = f.node \in members]
        /\ pc' = [pc EXCEPT ![d] = "done"]
        /\ result' = [result EXCEPT ![d] = Void]
        /\ UNCHANGED <<name, members, calls, outcome, wcalls, lookup, marshal, sends, wret>>

\* mutant: a kind without a response acknowledges through w
LocalReturn_Ack(d) ==
    /\ pc[d] = "inCall"
    /\ frame[d].kind \in LocalKinds \cup {"MatchSendData"}
    /\ W(d, frame[d], Bare, TRUE)
    /\ UNCHANGED <<name, members, frame, arrival, calls, outcome>>

\* the call of a kind without a response returns: onRequest returns
LocalReturn(d) ==
    /\ pc[d] = "inCall"
    /\ frame[d].kind \in LocalKinds \cup {"MatchSendData"}
    /\ pc' = [pc EXCEPT ![d] = "done"]
    /\ result' = [result EXCEPT ![d] = Void]
    /\ UNCHANGED <<name, members, frame, arrival, calls, outcome, wcalls, lookup, marshal, sends, wret>>

\* the registry call of a replied kind returns one of the outcomes outs allows
\* for the kind: the case builds its ResponseWriter and calls w
RegistryReturn(d, outs) ==
    /\ pc[d] = "inCall"
    /\ frame[d].kind \in RepliedKinds
    /\ \E out \in {[err |-> Nil, val |-> v] : v \in outs[frame[d].kind].vals}
                    \cup {[err |-> e, val |-> NoValue] : e \in outs[frame[d].kind].errs},
          marshalOk \in BOOLEAN :
        /\ outcome' = [outcome EXCEPT ![d] = out]
        /\ W(d, frame[d], Reply(frame[d].kind, out), marshalOk)
    /\ UNCHANGED <<name, members, frame, arrival, calls>>

----------------------------------------------------------------------------
(* The membership subsystem, which alone writes the directory *)

MemberJoin(n) ==
    /\ n \notin members
    /\ members' = members \cup {n}
    /\ UNCHANGED <<name, pc, frame, arrival, calls, outcome, wcalls, lookup, marshal, sends, wret, result>>

MemberLeave(n) ==
    /\ n \in members
    /\ members' = members \ {n}
    /\ UNCHANGED <<name, pc, frame, arrival, calls, outcome, wcalls, lookup, marshal, sends, wret, result>>

----------------------------------------------------------------------------
(* Specifications *)

Next ==
    \/ \E d \in Dispatches : Ping(d, Frames)
    \/ \E d \in Dispatches : Out(d, Frames)
    \/ \E d \in Dispatches : SingleSocket(d, Frames)
    \/ \E d \in Dispatches : Disconnect(d, Frames)
    \/ \E d \in Dispatches : PartyCall(d, Frames)
    \/ \E d \in Dispatches : MatchId(d, Frames)
    \/ \E d \in Dispatches : MatchJoinAttempt(d, Frames)
    \/ \E d \in Dispatches : MatchSendData(d, Frames)
    \/ \E d \in Dispatches : MatchSignal(d, Frames)
    \/ \E d \in Dispatches : MatchState(d, Frames)
    \/ \E d \in Dispatches : Default(d, Frames)
    \/ \E d \in Dispatches : LocalReturn(d)
    \/ \E d \in Dispatches : RegistryReturn(d, Outcomes)
    \/ \E d \in Dispatches, ok \in BOOLEAN : SendReturn(d, ok)
    \/ \E n \in Nodes : MemberJoin(n)
    \/ \E n \in Nodes : MemberLeave(n)

Spec == Init /\ [][Next]_vars

NextConc ==
    \/ \E d \in ConcDispatches : Ping(d, ConcFrames(d))
    \/ \E d \in ConcDispatches : Out(d, ConcFrames(d))
    \/ \E d \in ConcDispatches : SingleSocket(d, ConcFrames(d))
    \/ \E d \in ConcDispatches : Disconnect(d, ConcFrames(d))
    \/ \E d \in ConcDispatches : PartyCall(d, ConcFrames(d))
    \/ \E d \in ConcDispatches : MatchId(d, ConcFrames(d))
    \/ \E d \in ConcDispatches : MatchJoinAttempt(d, ConcFrames(d))
    \/ \E d \in ConcDispatches : MatchSendData(d, ConcFrames(d))
    \/ \E d \in ConcDispatches : MatchSignal(d, ConcFrames(d))
    \/ \E d \in ConcDispatches : MatchState(d, ConcFrames(d))
    \/ \E d \in ConcDispatches : Default(d, ConcFrames(d))
    \/ \E d \in ConcDispatches : LocalReturn(d)
    \/ \E d \in ConcDispatches : RegistryReturn(d, ConcOutcomes)
    \/ \E d \in ConcDispatches, ok \in BOOLEAN : SendReturn(d, ok)
    \/ \E n \in Nodes : MemberJoin(n)
    \/ \E n \in Nodes : MemberLeave(n)

SpecConc == InitConc /\ [][NextConc]_vars

\* the dispatch whose registry call and send do return; the other one may
\* stay in its registry call or in SendReliable for ever
Unblocked == "d2"

\* the steps by which a dispatch in flight goes on once its call has returned
Proceed(d) ==
    \/ LocalReturn(d)
    \/ RegistryReturn(d, ConcOutcomes)
    \/ \E ok \in BOOLEAN : SendReturn(d, ok)

\* two dispatches of which only one is sure to be scheduled and answered
SpecConcFair == SpecConc /\ WF_vars(Proceed(Unblocked))

----------------------------------------------------------------------------
(* Vocabulary of the properties *)

DispatchIds == DOMAIN pc

Done(d) == pc[d] = "done"

HasDot(s) == \E i \in 1..Len(s) : s[i] = "."

FirstDot(s) == CHOOSE i \in 1..Len(s) : s[i] = "." /\ \A j \in 1..(i - 1) : s[j] # "."

LastDot(s) == CHOOSE i \in 1..Len(s) : s[i] = "." /\ \A j \in (i + 1)..Len(s) : s[j] # "."

\* the text after the first "." of an identifier that has one
AfterFirstDot(s) == SubSeq(s, FirstDot(s) + 1, Len(s))

\* the last "."-separated segment of an identifier
TrailingSegment(s) == IF HasDot(s) THEN SubSeq(s, LastDot(s) + 1, Len(s)) ELSE s

\* the one call of dispatch d is the Match Registry call of its kind, with
\* the identifier as it arrived
OnlyMatchRegistryCall(d) ==
    /\ Len(calls[d]) = 1
    /\ calls[d][1].target = "matchRegistry"
    /\ calls[d][1].method = (IF frame[d].kind = "MatchId" THEN "GetMatch" ELSE "Signal")
    /\ calls[d][1].id = frame[d].id

NotFoundEnvelope ==
    [variant |-> "Envelope", value |-> NoValue,
     envelope |-> [code |-> "NotFound", message |-> "Not Found"]]

MatchRegistryCalls(d) ==
    {i \in 1..Len(calls[d]) : calls[d][i].target = "matchRegistry"}

\* dispatch d handed a frame to SendReliable and the send succeeded
Delivered(d) == Done(d) /\ sends[d] # <<>> /\ wret[d].code = "OK"

----------------------------------------------------------------------------
(* Properties *)

\* C1: a dispatch whose frame has an empty inbox never hands a frame to
\* SendReliable, whatever the request kind and the registry's outcome.
C1_EmptyInboxNoSend ==
    \A d \in DispatchIds : frame[d].inbox = NoInbox => sends[d] = <<>>

\* C1 witness: a replied kind with an empty inbox whose registry call reported
\* an error has run to its end while its origin node is in the directory.
C1_Witness ==
    \E d \in DispatchIds :
        /\ Done(d)
        /\ frame[d].kind = "PartyJoinRequest"
        /\ frame[d].inbox = NoInbox
        /\ frame[d].node \in members
        /\ outcome[d].err.code # "OK"
        /\ Len(wcalls[d]) = 1

\* C2 as stated: a MatchId or MatchSignal request whose identifier's trailing
\* "."-separated segment differs from the local node's name is answered with
\* NOT_FOUND and never reaches the Match Registry.
C2_TrailingSegmentRejected ==
    \A d \in DispatchIds :
        (/\ frame[d].kind \in {"MatchId", "MatchSignal"}
         /\ TrailingSegment(frame[d].id) # name)
            => (wcalls[d] = <<NotFoundEnvelope>> /\ MatchRegistryCalls(d) = {})

\* C2 amended: a MatchId or MatchSignal request whose identifier has no "." or
\* whose text after its first "." differs from the local node's name is
\* answered with NOT_FOUND and never reaches the Match Registry.
C2_FirstDotRejected ==
    \A d \in DispatchIds :
        (/\ frame[d].kind \in {"MatchId", "MatchSignal"}
         /\ (~HasDot(frame[d].id) \/ AfterFirstDot(frame[d].id) # name))
            => (wcalls[d] = <<NotFoundEnvelope>> /\ MatchRegistryCalls(d) = {})

\* C2 witness: a MatchSignal for a foreign node's match was answered with
\* NOT_FOUND and the answer was delivered.
C2_Witness ==
    \E d \in DispatchIds :
        /\ frame[d].kind = "MatchSignal"
        /\ HasDot(frame[d].id)
        /\ TrailingSegment(frame[d].id) # name
        /\ AfterFirstDot(frame[d].id) # name
        /\ Delivered(d)
        /\ sends[d][1].frame.payload.rw = NotFoundEnvelope
        /\ calls[d] = <<>>

\* C3: when w is called for a frame with a non-empty inbox whose node is not in
\* the directory, nothing is marshalled, SendReliable is not called and w
\* returns ABORTED "the remote node does not exist".
C3_UnknownNodeAborts ==
    [][\A d \in DispatchIds :
        (/\ Len(wcalls'[d]) > Len(wcalls[d])
         /\ frame'[d].inbox # NoInbox
         /\ frame'[d].node \notin members)
            => (/\ sends'[d] = <<>>
                /\ marshal'[d] = "none"
                /\ pc'[d] = "done"
                /\ wret'[d] = [code |-> "Aborted",
                               message |-> "the remote node does not exist"])]_vars

\* C3 witness: a registry call was made and returned, the response was due,
\* and the lookup of the origin node missed.
C3_Witness ==
    \E d \in DispatchIds :
        /\ Done(d)
        /\ frame[d].kind = "MatchState"
        /\ frame[d].inbox # NoInbox
        /\ lookup[d] = [key |-> frame[d].node, ok |-> FALSE]
        /\ wret[d].message = "the remote node does not exist"
        /\ sends[d] = <<>>

\* C4: under every interleaving of two dispatches, each frame handed to
\* SendReliable carries the ResponseWriter its dispatch built (never a
\* Request), the inbox of the frame that caused it, the local node's name, and
\* goes to the directory entry of that frame's node; it never carries the
\* inbox of another dispatch's frame, nor goes to that frame's origin.
C4_ResponseCorrelation ==
    \A d \in DispatchIds : \A i \in 1..Len(sends[d]) :
        LET m == sends[d][i]
        IN  /\ m.frame.payload.type = "ResponseWriter"
            /\ m.frame.payload.rw = wcalls[d][1]
            /\ m.frame.inbox = frame[d].inbox
            /\ m.frame.node = name
            /\ m.to = [memberlistNode |-> frame[d].node]
            /\ \A e \in DispatchIds \ {d} :
                /\ frame[e].inbox # frame[d].inbox => m.frame.inbox # frame[e].inbox
                /\ frame[e].node # frame[d].node => m.to.memberlistNode # frame[e].node

\* C4 witness: two dispatches from different origins with different inboxes
\* are both blocked in SendReliable at the same time.
C4_Witness ==
    \E d, e \in DispatchIds :
        /\ d # e
        /\ pc[d] = "sending" /\ pc[e] = "sending"
        /\ frame[d].inbox # frame[e].inbox
        /\ frame[d].node # frame[e].node
        /\ frame[d].kind = "PartyAccept" /\ frame[e].kind = "MatchId"

\* C5: one dispatch hands at most one ResponseWriter to w, calls SendReliable
\* at most once (also when the send fails), and makes at most one call to a
\* registry or local subsystem.
C5_AtMostOnce ==
    \A d \in DispatchIds :
        /\ Len(wcalls[d]) <= 1
        /\ Len(sends[d]) <= 1
        /\ Len(calls[d]) <= 1

\* C5 witness: a dispatch called a registry, answered, and its one send failed.
C5_Witness ==
    \E d \in DispatchIds :
        /\ Done(d)
        /\ Len(calls[d]) = 1 /\ Len(wcalls[d]) = 1 /\ Len(sends[d]) = 1
        /\ wret[d].message = "transport error"

\* C6 as stated: when the response of a dispatch could not be delivered
\* (unknown node, marshal failure, send failure), onRequest hands its caller
\* something other than what it hands back after a delivery (Void).
C6_FailureSurfaced ==
    \A d \in DispatchIds :
        (Done(d) /\ wret[d].code # "OK") => result[d] # Void

\* C7 as stated: no match operation whose identifier names another node
\* reaches the Match Registry.
C7_ForeignNeverReachesRegistry ==
    \A d \in DispatchIds :
        (/\ frame[d].kind \in MatchKinds
         /\ HasDot(frame[d].id)
         /\ AfterFirstDot(frame[d].id) # name
         /\ TrailingSegment(frame[d].id) # name)
            => MatchRegistryCalls(d) = {}

\* the response the dispatch table prescribes for a registry outcome
PrescribedVariant(kind) ==
    CASE kind = "PartyJoinRequest" -> "PartyJoinRequest"
      [] kind = "PartyJoinRequestList" -> "PartyJoinRequestList"
      [] kind = "PartyMatchmakerAdd" -> "PartyMatchmakerAdd"
      [] kind = "MatchId" -> "Match"
      [] kind = "MatchSignal" -> "MatchSignal"
      [] kind = "MatchState" -> "MatchState"
      [] OTHER -> "None"

PrescribedReply(kind, out) ==
    IF out.err.code # "OK"
    THEN [variant |-> "Envelope", value |-> NoValue,
          envelope |-> [code |-> out.err.code, message |-> out.err.message]]
    ELSE IF PrescribedVariant(kind) = "None"
    THEN [variant |-> "None", value |-> NoValue, envelope |-> [code |-> "", message |-> ""]]
    ELSE [variant |-> PrescribedVariant(kind), value |-> out.val,
          envelope |-> [code |-> "", message |-> ""]]

\* which payload a ResponseWriter carries, leaving the payload's content aside
Outline(rw) == [variant |-> rw.variant, envelope |-> rw.envelope]

\* the registry call of dispatch d has returned
Returned(d) == calls[d] # <<>> /\ pc[d] \in {"sending", "done"}

\* dispatch d called method on the Match Registry once, with the full identifier
CalledOnceWithFullId(d, method) ==
    /\ Len(calls[d]) = 1
    /\ calls[d][1].target = "matchRegistry"
    /\ calls[d][1].method = method
    /\ calls[d][1].id = frame[d].id

\* what C8 promises of a MatchId or MatchSignal dispatch that is accepted
AcceptedByRegistry(d) ==
    /\ CalledOnceWithFullId(d, IF frame[d].kind = "MatchId" THEN "GetMatch" ELSE "Signal")
    /\ Returned(d) => wcalls[d] = <<PrescribedReply(frame[d].kind, outcome[d])>>
    /\ ~Returned(d) => wcalls[d] = <<>>

\* C8 as stated: a MatchId or MatchSignal request whose identifier has a "."
\* and a trailing segment equal to the local node's name is passed to GetMatch
\* or Signal exactly once with the full identifier, and answered with the
\* registry's result or error.
C8_TrailingSegmentAccepted ==
    \A d \in DispatchIds :
        (/\ frame[d].kind \in {"MatchId", "MatchSignal"}
         /\ HasDot(frame[d].id)
         /\ TrailingSegment(frame[d].id) = name)
            => AcceptedByRegistry(d)

\* C8 amended: a MatchId or MatchSignal request whose identifier has a "." and
\* whose whole text after the first "." equals the local node's name is passed
\* to GetMatch or Signal exactly once with the full identifier, and answered
\* with the registry's result or error.
C8_FirstDotAccepted ==
    \A d \in DispatchIds :
        (/\ frame[d].kind \in {"MatchId", "MatchSignal"}
         /\ HasDot(frame[d].id)
         /\ AfterFirstDot(frame[d].id) = name)
            => AcceptedByRegistry(d)

\* C8 witness: a MatchId for a match of this node was looked up with success
\* and the match descriptor was delivered.
C8_Witness ==
    \E d \in DispatchIds :
        /\ frame[d].kind = "MatchId"
        /\ HasDot(frame[d].id)
        /\ AfterFirstDot(frame[d].id) = name
        /\ Len(frame[d].id) > Len(name) + 1
        /\ Delivered(d)
        /\ outcome[d].err.code = "OK"
        /\ sends[d][1].frame.payload.rw.variant = "Match"

\* the one call a kind without a response makes
OnlyCall(kind) ==
    CASE kind = "Out" -> <<"local", "handler">>
      [] kind = "SingleSocket" -> <<"local", "singleSocket">>
      [] kind = "Disconnect" -> <<"local", "disconnect">>
      [] kind = "MatchSendData" -> <<"matchRegistry", "SendData">>

\* C9: Out, SingleSocket, Disconnect and MatchSendData never cause an outbound
\* frame, also with a non-empty inbox; their only effect is exactly one call
\* of the local handler, singleSocket, disconnect or SendData.
C9_NoResponseKinds ==
    \A d \in DispatchIds :
        frame[d].kind \in {"Out", "SingleSocket", "Disconnect", "MatchSendData"}
            => (/\ sends[d] = <<>>
                /\ Len(calls[d]) = 1
                /\ <<calls[d][1].target, calls[d][1].method>> = OnlyCall(frame[d].kind))

\* C9 witness: a MatchSendData with a non-empty inbox from a node the
\* directory holds has run to its end.
C9_Witness ==
    \E d \in DispatchIds :
        /\ Done(d)
        /\ frame[d].kind = "MatchSendData"
        /\ frame[d].inbox # NoInbox
        /\ frame[d].node \in members
        /\ Len(calls[d]) = 1

ErrorPathKinds ==
    {"PartyJoinRequest", "PartyPromote", "PartyAccept", "PartyRemove", "PartyClose",
     "PartyJoinRequestList", "PartyMatchmakerAdd", "PartyMatchmakerRemove",
     "PartyDataSend", "MatchId", "MatchSignal", "MatchState"}

\* C10: for a kind with an error path and a non-empty inbox, once the registry
\* call has returned the single response is the error envelope of the
\* registry's error when it reported one, and the kind's success payload (bare
\* for Promote, Accept, Remove, Close, MatchmakerRemove, DataSend) otherwise.
C10_ErrorOrSuccess ==
    \A d \in DispatchIds :
        (/\ frame[d].kind \in ErrorPathKinds
         /\ frame[d].inbox # NoInbox
         /\ Returned(d))
            => (/\ Len(wcalls[d]) = 1
                /\ Outline(wcalls[d][1]) = Outline(PrescribedReply(frame[d].kind, outcome[d]))
                /\ \A i \in 1..Len(sends[d]) :
                    Outline(sends[d][i].frame.payload.rw)
                        = Outline(PrescribedReply(frame[d].kind, outcome[d])))

\* C10 witness: a PartyClose whose registry call reported an error was
\* answered with the envelope of that error, and the answer was delivered.
C10_Witness ==
    \E d \in DispatchIds :
        /\ frame[d].kind = "PartyClose"
        /\ frame[d].inbox # NoInbox
        /\ outcome[d].err.code = "Unknown"
        /\ Delivered(d)
        /\ sends[d][1].frame.payload.rw.variant = "Envelope"
        /\ sends[d][1].frame.payload.rw.envelope.message = "domain error"

\* C11: a request whose variant is unset or unknown is a silent no-op:
\* onRequest returns, no registry or local subsystem is called, w is not
\* called and no frame is sent, whatever the inbox.
C11_DefaultIsNoOp ==
    \A d \in DispatchIds :
        frame[d].kind = "Unset"
            => (/\ Done(d)
                /\ result[d] = Void
                /\ calls[d] = <<>>
                /\ wcalls[d] = <<>>
                /\ sends[d] = <<>>
                /\ lookup[d].key = "none")

\* C11 witness: an unset request with a non-empty inbox from a node the
\* directory holds has been dispatched.
C11_Witness ==
    \E d \in DispatchIds :
        /\ frame[d].kind = "Unset"
        /\ frame[d].inbox # NoInbox
        /\ frame[d].node \in members
        /\ Done(d)

\* C12: a Ping is answered with the ResponseWriter Pong "PONG" whatever the
\* other fields of the frame, no registry or local subsystem is called, and a
\* frame sent for it carries that Pong.
C12_PingPong ==
    \A d \in DispatchIds :
        frame[d].kind = "Ping"
            => (/\ wcalls[d] = <<[variant |-> "Pong", value |-> "PONG",
                                  envelope |-> [code |-> "", message |-> ""]]>>
                /\ calls[d] = <<>>
                /\ \A i \in 1..Len(sends[d]) :
                    /\ sends[d][i].frame.payload.rw.variant = "Pong"
                    /\ sends[d][i].frame.payload.rw.value = "PONG")

\* C12 witness: a Pong was delivered.
C12_Witness ==
    \E d \in DispatchIds :
        /\ frame[d].kind = "Ping"
        /\ Delivered(d)
        /\ sends[d][1].frame.payload.rw.value = "PONG"

\* C13: a MatchJoinAttempt with a non-empty inbox calls Match Registry
\* JoinAttempt exactly once and is answered with a join-attempt verdict, never
\* with an error envelope; the verdict's fields are the values the registry
\* returned, with one wire presence per returned presence, in the same order.
C13_JoinAttemptVerdict ==
    \A d \in DispatchIds :
        (frame[d].kind = "MatchJoinAttempt" /\ frame[d].inbox # NoInbox /\ pc[d] # "idle")
            => (/\ Len(calls[d]) = 1
                /\ calls[d][1].target = "matchRegistry"
                /\ calls[d][1].method = "JoinAttempt"
                /\ Returned(d) =>
                    (/\ Len(wcalls[d]) = 1
                     /\ \A rw \in {wcalls[d][1]} \cup
                                {sends[d][i].frame.payload.rw : i \in 1..Len(sends[d])} :
                        /\ rw.variant = "MathJoinAttempt"
                        /\ rw.envelope = [code |-> "", message |-> ""]
                        /\ rw.value.Found = outcome[d].val.found
                        /\ rw.value.Allow = outcome[d].val.allow
                        /\ rw.value.IsNew = outcome[d].val.isNew
                        /\ rw.value.Reason = outcome[d].val.reason
                        /\ rw.value.Label = outcome[d].val.label
                        /\ Len(rw.value.Presences) = Len(outcome[d].val.ps)
                        /\ \A k \in 1..Len(outcome[d].val.ps) :
                            /\ rw.value.Presences[k].UserId = outcome[d].val.ps[k].userId
                            /\ rw.value.Presences[k].SessionId = outcome[d].val.ps[k].sessionId
                            /\ rw.value.Presences[k].Username = outcome[d].val.ps[k].username
                            /\ rw.value.Presences[k].Node = outcome[d].val.ps[k].nodeId
                            /\ rw.value.Presences[k].Reason = outcome[d].val.ps[k].reason))

\* C13 witness: a verdict "not found" with two different presences was
\* delivered.
C13_Witness ==
    \E d \in DispatchIds :
        /\ frame[d].kind = "MatchJoinAttempt"
        /\ Delivered(d)
        /\ ~outcome[d].val.found
        /\ Len(outcome[d].val.ps) = 2
        /\ outcome[d].val.ps[1] # outcome[d].val.ps[2]
        /\ sends[d][1].frame.payload.rw.value.Presences[2].UserId = outcome[d].val.ps[2].userId

\* C14: the Presence a PartyJoinRequest passes to Party Registry JoinRequest
\* has Stream and Meta built from the first entry of the request's repeated
\* stream and meta fields; a field whose repeated field is empty is unset and
\* the call is made all the same.
C14_PresenceFromIndexZero ==
    \A d \in DispatchIds :
        (frame[d].kind = "PartyJoinRequest" /\ pc[d] # "idle")
            => (/\ Len(calls[d]) = 1
                /\ calls[d][1].target = "partyRegistry"
                /\ calls[d][1].method = "PartyJoinRequest"
                /\ calls[d][1].presence.Stream =
                        (IF frame[d].stream = <<>> THEN <<>>
                         ELSE <<"PresenceStream", Head(frame[d].stream)>>)
                /\ calls[d][1].presence.Meta =
                        (IF frame[d].meta = <<>> THEN <<>>
                         ELSE <<"PresenceMeta", Head(frame[d].meta)>>))

\* C14 witness: a PartyJoinRequest with two different stream entries and no
\* meta entry was passed to the registry with the first stream entry and an
\* unset Meta.
C14_Witness ==
    \E d \in DispatchIds :
        /\ frame[d].kind = "PartyJoinRequest"
        /\ Len(frame[d].stream) = 2
        /\ frame[d].stream[1] # frame[d].stream[2]
        /\ frame[d].meta = <<>>
        /\ Len(calls[d]) = 1
        /\ calls[d][1].presence.Stream[2] = frame[d].stream[1]
        /\ calls[d][1].presence.Meta = <<>>

\* C15: when Party Registry PartyMatchmakerAdd succeeds with a ticket and n
\* presence identifiers, the response carries that ticket and n presence IDs
\* in the registry's order, each with the node of the registry's entry and the
\* text of its session ID.
C15_MatchmakerAddReply ==
    \A d \in DispatchIds :
        (/\ frame[d].kind = "PartyMatchmakerAdd"
         /\ Returned(d)
         /\ outcome[d].err.code = "OK")
            => (/\ Len(wcalls[d]) = 1
                /\ \A rw \in {wcalls[d][1]} \cup
                           {sends[d][i].frame.payload.rw : i \in 1..Len(sends[d])} :
                    /\ rw.variant = "PartyMatchmakerAdd"
                    /\ rw.value.Ticket = outcome[d].val.ticket
                    /\ Len(rw.value.PresenceID) = Len(outcome[d].val.ids)
                    /\ \A k \in 1..Len(outcome[d].val.ids) :
                        /\ rw.value.PresenceID[k].Node = outcome[d].val.ids[k].node
                        /\ Len(rw.value.PresenceID[k].SessionID)
                                = Len(outcome[d].val.ids[k].sessionID)
                        /\ \A j \in 1..Len(outcome[d].val.ids[k].sessionID) :
                            rw.value.PresenceID[k].SessionID[j]
                                = Hex[outcome[d].val.ids[k].sessionID[j] + 1])

\* C15 witness: ticket "T1" and two different presence identifiers were
\* returned, and the response with two presence IDs was delivered.
C15_Witness ==
    \E d \in DispatchIds :
        /\ frame[d].kind = "PartyMatchmakerAdd"
        /\ Delivered(d)
        /\ outcome[d].err.code = "OK"
        /\ outcome[d].val.ticket = "T1"
        /\ Len(outcome[d].val.ids) = 2
        /\ outcome[d].val.ids[1] # outcome[d].val.ids[2]
        /\ Len(sends[d][1].frame.payload.rw.value.PresenceID) = 2

\* C16: for a replied kind the send stage (the call of w, the directory
\* lookup, the send) begins only in a step later than the one that started
\* the registry call, the step in which the call returns, and from then on
\* nothing the send stage does, its failures included, reaches the registry
\* again: the one call and what it returned stay as they are.
C16_TwoStages ==
    [][\A d \in DispatchIds :
        (frame'[d].kind \in RepliedKinds /\ calls'[d] # <<>>)
            => (/\ (wcalls'[d] # <<>> \/ lookup'[d] # NoLookup \/ sends'[d] # <<>>)
                        => (calls[d] # <<>> /\ pc'[d] \in {"sending", "done"})
                /\ pc[d] \in {"sending", "done"}
                        => (calls'[d] = calls[d] /\ outcome'[d] = outcome[d])
                /\ Len(calls'[d]) = 1)]_vars

\* C16 witness: a transport failure of the send has followed a registry call
\* that succeeded, and the call stands.
C16_Witness ==
    \E d \in DispatchIds :
        /\ frame[d].kind = "PartyAccept"
        /\ Done(d)
        /\ outcome[d].err.code = "OK"
        /\ wret[d] = TransportError
        /\ Len(calls[d]) = 1

\* C17: a dispatch in flight whose own registry call and send return goes on
\* to its end, whatever the other dispatch does, also when the other one
\* stays in its registry call or in SendReliable for ever.
C17_NotSerialized ==
    (pc[Unblocked] \in {"inCall", "sending"}) ~> (pc[Unblocked] = "done")

\* C17 witness: a dispatch has sent its response and returned while the other
\* one, which started first, is still in its registry call.
C17_Witness ==
    /\ pc["d1"] = "inCall"
    /\ frame["d1"].kind = "PartyAccept"
    /\ frame[Unblocked].kind = "MatchId"
    /\ Delivered(Unblocked)

\* C18: an error envelope of class NOT_FOUND is handed to w, and so reaches a
\* requester, only when the dispatcher itself rejected the identifier of a
\* MatchId or MatchSignal request; it is never the result of an error that a
\* Party or Match Registry call reported.
C18_NotFoundReserved ==
    \A d \in DispatchIds :
        \A rw \in {wcalls[d][i] : i \in 1..Len(wcalls[d])} \cup
                  {sends[d][i].frame.payload.rw : i \in 1..Len(sends[d])} :
            (rw.variant = "Envelope" /\ rw.envelope.code = "NotFound")
                => (/\ frame[d].kind \in NamespacedKinds
                    /\ calls[d] = <<>>)

\* C19: the namespace test of MatchId and MatchSignal splits the identifier at
\* its first "." only: the Match Registry is called if and only if the
\* identifier has a "." and all the text after the first "." is the local
\* node's name; every other identifier, one whose last segment is the node's
\* name included, is answered with NOT_FOUND and no call.
C19_SplitAtFirstDot ==
    \A d \in DispatchIds :
        (frame[d].kind \in NamespacedKinds /\ pc[d] # "idle")
            => (/\ (calls[d] # <<>>)
                    <=> (HasDot(frame[d].id) /\ AfterFirstDot(frame[d].id) = name)
                /\ calls[d] # <<>> => OnlyMatchRegistryCall(d)
                /\ calls[d] = <<>> => wcalls[d] = <<NotFoundEnvelope>>)

\* C19 witness: an identifier with two "." whose last segment is the node's
\* name, but whose text after the first "." is not, was answered with
\* NOT_FOUND, and the answer was delivered.
C19_Witness ==
    \E d \in DispatchIds :
        /\ frame[d].kind = "MatchId"
        /\ HasDot(frame[d].id)
        /\ FirstDot(frame[d].id) # LastDot(frame[d].id)
        /\ TrailingSegment(frame[d].id) = name
        /\ AfterFirstDot(frame[d].id) # name
        /\ calls[d] = <<>>
        /\ Delivered(d)
        /\ sends[d][1].frame.payload.rw.envelope.code = "NotFound"

\* C20: w looks the origin node up in the directory as it is when w runs,
\* not as it was when the frame arrived: a frame is sent only to a node the
\* directory holds at that moment; when it does not hold the node no frame is
\* sent and the registry call that was made stands; when it holds the node
\* and the frame serializes, the response is sent.
C20_LookupAtResponseTime ==
    [][\A d \in DispatchIds :
        (wcalls'[d] # wcalls[d] /\ frame'[d].inbox # NoInbox)
            => (/\ lookup'[d].key = frame'[d].node
                /\ lookup'[d].ok = (frame'[d].node \in members)
                /\ sends'[d] # <<>> => frame'[d].node \in members
                /\ frame'[d].node \notin members
                        => (sends'[d] = <<>> /\ calls'[d] = calls[d])
                /\ (frame'[d].node \in members /\ marshal'[d] = "ok")
                        => Len(sends'[d]) = 1)]_vars

\* C20 witness: the directory held the origin node when the frame arrived and
\* lost it while the registry call was in progress: the call succeeded, its
\* effect stands and no frame was sent.
C20_Witness ==
    \E d \in DispatchIds :
        /\ frame[d].kind = "PartyJoinRequest"
        /\ frame[d].inbox # NoInbox
        /\ arrival[d]
        /\ Done(d)
        /\ Len(calls[d]) = 1
        /\ outcome[d].err.code = "OK"
        /\ ~lookup[d].ok
        /\ sends[d] = <<>>

====
